---- MODULE Spec2Model ----
(***************************************************************************)
(* A model of cnvlib/segfilters.py: the segment filters of CNVkit.         *)
(*                                                                         *)
(* A table (CopyNumArray) is a record [cols, rows]: cols is the set of     *)
(* column names, rows the sequence of rows, each row a function from cols  *)
(* to the cell values.  The row index is the default 0..n-1 index, written *)
(* here as the positions 1..n.                                             *)
(*                                                                         *)
(* Units: the real-valued columns hold integers in a fixed unit (log2,     *)
(* sem, ci and pi bounds in 1/100, baf in 1/10000); the reductions of      *)
(* squash_region (averages, medians) are exact rationals [n, d].           *)
(***************************************************************************)
EXTENDS Integers, Sequences, FiniteSets, TLC

VARIABLES
    segarr,   \* the caller's table, as the caller sees it
    before,   \* the caller's table as it was when the call was made
    levels,   \* the level sequence handed to squash_by_groups / enumerate_changes
    filt,     \* the name of the function that was called
    pc,       \* "ready" before the call, "returned" or "raised" after it
    out       \* what the call produced

vars == <<segarr, before, levels, filt, pc, out>>

(***************************************************************************)
(* Bounds of the model.                                                    *)
(***************************************************************************)
MaxRunLen == 4      \* longest level sequence given to enumerate_changes
MaxLevel == 2       \* levels given to enumerate_changes range over -1..MaxLevel
MaxRows == 3        \* most rows of a table given to squash_by_groups
MaxGateRows == 2    \* most rows of a table given to a decorated filter
MaxAmpRows == 3     \* most rows of a table given to ampdel on its own
MaxSingleRows == 2  \* most rows of a table squashed row by row

(***************************************************************************)
(* Arithmetic helpers: what the numpy / pandas primitives compute.         *)
(***************************************************************************)
Abs(x) == IF x < 0 THEN -x ELSE x

RECURSIVE SumTo(_, _)
\* s[1] + ... + s[i]: the i-th entry of Series.cumsum(), and Series.sum().
SumTo(s, i) == IF i = 0 THEN 0 ELSE SumTo(s, i - 1) + s[i]

Sum(s) == SumTo(s, Len(s))

\* A float cell of a Series: NaN, or a number.
NaN == [nan |-> TRUE, v |-> 0]

Num(x) == [nan |-> FALSE, v |-> x]

\* Series.diff(): NaN in the first row, then the difference to the row before.
Diff(s) == [i \in 1..Len(s) |-> IF i = 1 THEN NaN ELSE Num(s[i] - s[i - 1])]

\* Series.fillna(x)
FillNa(s, x) == [i \in 1..Len(s) |-> IF s[i].nan THEN Num(x) ELSE s[i]]

\* Series.abs()
SeriesAbs(s) == [i \in 1..Len(s) |-> IF s[i].nan THEN s[i] ELSE Num(Abs(s[i].v))]

\* Series.cumsum().astype(int) of a Series that holds no NaN.
CumSumInt(s) == [i \in 1..Len(s) |-> SumTo([j \in 1..Len(s) |-> s[j].v], i)]

\* The bug a missing .abs() would be: the key is levels[i] - levels[1].
enumerate_changes_noabs(lv) == CumSumInt(FillNa(Diff(lv), 0))

\* levels.diff().fillna(0).abs().cumsum().astype(int)
enumerate_changes(lv) == CumSumInt(SeriesAbs(FillNa(Diff(lv), 0)))

NoTable == [cols |-> {}, rows |-> <<>>]

(***************************************************************************)
(* Tables.                                                                 *)
(***************************************************************************)
\* The columns squash_region reads without asking whether they are there.
AlwaysCols == {"chromosome", "start", "end", "log2", "weight", "gene"}

\* c in cnarr
Has(t, c) == c \in t.cols

\* len(cnarr)
NRows(t) == Len(t.rows)

\* cnarr[c]: column c as a sequence.
Col(t, c) == [i \in 1..NRows(t) |-> t.rows[i][c]]

RECURSIVE UniqueTo(_, _)
\* Series.unique() / drop_duplicates() of s[1..i]: the distinct values in
\* first-seen order.
UniqueTo(s, i) ==
    IF i = 0 THEN <<>>
    ELSE LET u == UniqueTo(s, i - 1)
         IN  IF \E k \in 1..Len(u) : u[k] = s[i] THEN u ELSE Append(u, s[i])

Unique(s) == UniqueTo(s, Len(s))

\* list.index(x), 0-based: the position of x in u.
IndexOf(u, x) == (CHOOSE k \in 1..Len(u) : u[k] = x) - 1

\* The members of a sequence.
Members(q) == {q[k] : k \in 1..Len(q)}

RECURSIVE SortedSeq(_)
\* The members of a set of integers in ascending order.
SortedSeq(S) ==
    IF S = {} THEN <<>>
    ELSE LET m == CHOOSE x \in S : \A y \in S : x <= y
         IN  <<m>> \o SortedSeq(S \ {m})

RECURSIVE SortedBy(_, _)
\* The positions I of x ordered by value (ties by position): argsort.
SortedBy(x, I) ==
    IF I = {} THEN <<>>
    ELSE LET m == CHOOSE i \in I : \A j \in I : x[i] < x[j] \/ (x[i] = x[j] /\ i <= j)
         IN  <<m>> \o SortedBy(x, I \ {m})

\* The values of x in ascending order.
SortedVals(x) == LET o == SortedBy(x, 1..Len(x)) IN [k \in 1..Len(x) |-> x[o[k]]]

(***************************************************************************)
(* The reductions of squash_region, as exact rationals [n, d].             *)
(* A rational with d = 0 is the NaN a division by zero gives.              *)
(***************************************************************************)
Rat(a, b) == [n |-> a, d |-> b]

\* r = x, r >= x for a rational r and an integer x
RatEqInt(r, x) == r.d > 0 /\ r.n = x * r.d

RatGeInt(r, x) == r.d > 0 /\ r.n >= x * r.d

\* a - b
RatSub(a, b) == Rat(a.n * b.d - b.n * a.d, a.d * b.d)

\* np.average(x, weights=w)
Average(x, w) == Rat(Sum([i \in 1..Len(x) |-> x[i] * w[i]]), Sum(w))

\* np.mean(x)
Mean(x) == Rat(Sum(x), Len(x))

\* np.median(x): the middle value, or the mean of the two middle values.
Median(x) ==
    LET a == SortedVals(x)
        n == Len(x)
    IN  IF n % 2 = 1 THEN Rat(a[(n + 1) \div 2], 1)
        ELSE Rat(a[n \div 2] + a[(n \div 2) + 1], 2)

\* descriptives.weighted_median(x, w), called with total weight > 0: the value
\* at which the cumulative weight, in value order, reaches half the total; the
\* mean of that value and the next when it reaches exactly half.
weighted_median(x, w) ==
    LET o == SortedBy(x, 1..Len(x))
        a == [k \in 1..Len(x) |-> x[o[k]]]
        cw == [k \in 1..Len(x) |-> SumTo([j \in 1..Len(x) |-> w[o[j]]], k)]
        total == Sum(w)
        k == CHOOSE i \in 1..Len(x) :
                 /\ 2 * cw[i] >= total
                 /\ \A j \in 1..(i - 1) : 2 * cw[j] < total
    IN  IF 2 * cw[k] = total /\ k < Len(x) THEN Rat(a[k] + a[k + 1], 2)
        ELSE Rat(a[k], 1)

RECURSIVE JoinTo(_, _)
\* ','.join(s[1..i]): a gene cell is the sequence of the names it lists, and
\* joining cells with commas lists the names of all of them.
JoinTo(s, i) == IF i = 0 THEN <<>> ELSE JoinTo(s, i - 1) \o s[i]

Join(s) == JoinTo(s, Len(s))

\* max of a column
MaxOf(x) == CHOOSE m \in {x[i] : i \in 1..Len(x)} : \A i \in 1..Len(x) : x[i] <= m

(***************************************************************************)
(* squash_region: one group of rows to one row.                            *)
(***************************************************************************)
\* The columns of the row squash_region returns.
SquashedCols(g) ==
    {"chromosome", "start", "end", "log2", "gene", "probes", "weight"}
        \cup (IF Has(g, "depth") THEN {"depth"} ELSE {})
        \cup (IF Has(g, "baf") THEN {"baf"} ELSE {})
        \cup (IF Has(g, "cn") THEN {"cn"} ELSE {})
        \cup (IF Has(g, "cn") /\ Has(g, "cn1") THEN {"cn1", "cn2"} ELSE {})
        \cup (IF Has(g, "p_bintest") THEN {"p_bintest"} ELSE {})

\* The bug of averaging by the weights even when they sum to 0.
WeightedMean_nofallback(g, c) == Average(Col(g, c), Col(g, "weight"))

\* The weighted mean of column c, or the plain mean when the weights sum to 0.
WeightedMean(g, c) ==
    IF Sum(Col(g, "weight")) > 0 THEN Average(Col(g, c), Col(g, "weight"))
    ELSE Mean(Col(g, c))

\* The weighted median of column c, or the plain median when the weights sum to 0.
WeightedMedian(g, c) ==
    IF Sum(Col(g, "weight")) > 0 THEN weighted_median(Col(g, c), Col(g, "weight"))
    ELSE Median(Col(g, c))

squash_region(g) ==
    [c \in SquashedCols(g) |->
        CASE c = "chromosome" -> g.rows[1]["chromosome"]
          [] c = "start" -> g.rows[1]["start"]
          [] c = "end" -> g.rows[NRows(g)]["end"]
          [] c = "log2" -> WeightedMean(g, "log2")
          [] c = "gene" -> Join(Unique(Col(g, "gene")))
          [] c = "probes" -> IF Has(g, "probes") THEN Sum(Col(g, "probes")) ELSE NRows(g)
          [] c = "weight" -> Sum(Col(g, "weight"))
          [] c = "depth" -> WeightedMean(g, "depth")
          [] c = "baf" -> WeightedMean(g, "baf")
          [] c = "cn" -> WeightedMedian(g, "cn")
          [] c = "cn1" -> WeightedMedian(g, "cn1")
          [] c = "cn2" -> RatSub(WeightedMedian(g, "cn"), WeightedMedian(g, "cn1"))
          [] c = "p_bintest" -> MaxOf(Col(g, "p_bintest"))]

(***************************************************************************)
(* squash_by_groups (by_arm=False).                                        *)
(***************************************************************************)
\* chrom_col: each row's chromosome replaced by its ordinal among the
\* chromosome names in first-seen order.
chrom_col(t) ==
    LET chrom_names == Unique(Col(t, "chromosome"))
    IN  [i \in 1..NRows(t) |-> IndexOf(chrom_names, t.rows[i]["chromosome"])]

\* change_levels after "change_levels += chrom_col": the run key of the levels
\* plus the chromosome ordinal, one integer per row (the _group column).
change_levels(t, lv) ==
    LET runs == enumerate_changes(lv)
        chrom == chrom_col(t)
    IN  [i \in 1..NRows(t) |-> runs[i] + chrom[i]]

\* The bug of leaving _g1 and _g2 out of the groupkey.
GroupKeys_nog1g2(t, lv) ==
    LET group == change_levels(t, lv)
    IN  [i \in 1..NRows(t) |-> <<group[i]>>]

\* The values of the groupkey columns of each row: _group, and _g1 and _g2
\* when the table has a cn1 column.
GroupKeys(t, lv) ==
    LET group == change_levels(t, lv)
    IN  IF Has(t, "cn1")
        THEN LET g1 == enumerate_changes(Col(t, "cn1"))
                 g2 == enumerate_changes(Col(t, "cn2"))
             IN  [i \in 1..NRows(t) |-> <<group[i], g1[i], g2[i]>>]
        ELSE [i \in 1..NRows(t) |-> <<group[i]>>]

\* data.groupby(groupkey, sort=False): the groups in order of first appearance,
\* each the ascending positions of the rows that hold one key.
Groups(keys) ==
    LET n == Len(keys)
        leaders == SortedSeq({i \in 1..n : \A j \in 1..(i - 1) : keys[j] # keys[i]})
    IN  [g \in 1..Len(leaders) |-> SortedSeq({i \in 1..n : keys[i] = keys[leaders[g]]})]

\* The frame of one group: the rows at positions idx, in that order.
SubTable(t, idx) == [cols |-> t.cols, rows |-> [k \in 1..Len(idx) |-> t.rows[idx[k]]]]

\* What a call produced: a table, the NotImplemented object, or an exception.
\* groups records, for a table that squash_by_groups built, the input rows each
\* output row was reduced from.
ReturnTable(t, gs) ==
    [status |-> "returned", error |-> "none", kind |-> "table", value |-> t, groups |-> gs]

ReturnNotImplemented ==
    [status |-> "returned", error |-> "none", kind |-> "NotImplemented",
     value |-> NoTable, groups |-> <<>>]

Raise(e) ==
    [status |-> "raised", error |-> e, kind |-> "none", value |-> NoTable, groups |-> <<>>]

squash_by_groups(t, lv) ==
    IF Has(t, "cn1") /\ ~Has(t, "cn2")
    THEN Raise("KeyError")        \* cnarr['cn2']
    ELSE LET gs == Groups(GroupKeys(t, lv))
         IN  ReturnTable([cols |-> SquashedCols(t),
                          rows |-> [g \in 1..Len(gs) |-> squash_region(SubTable(t, gs[g]))]],
                         gs)

(***************************************************************************)
(* The filters: each assigns a level to every row and squashes by it.      *)
(***************************************************************************)
AmpCopies == 5          \* 5+ copies is an amplification

MinPurity == 2          \* min_purity 0.2, in tenths

ZScore == 196           \* zscore 1.96, in 1/100

\* calculate_min_baf_amp(0.2) = 0.667*0.2 + 0.5*(1-0.2), in 1/10000
min_baf_amp == 667 * MinPurity + 500 * (10 - MinPurity)

\* calculate_min_baf_del(0.2) = 1*0.2 + 0.5*(1-0.2), in 1/10000
min_baf_del == 1000 * MinPurity + 500 * (10 - MinPurity)

\* levels = zeros; levels[lo > 0] = 1; levels[hi < 0] = -1 (the later
\* assignment wins where both masks hold).
SignLevels(gain, loss) ==
    [i \in 1..Len(gain) |-> IF loss[i] THEN 0 - 1 ELSE IF gain[i] THEN 1 ELSE 0]

\* The bug of calling only 6+ copies an amplification.
ampdel_levels_gt(t) ==
    LET gain == [i \in 1..NRows(t) |-> t.rows[i]["cn"] > AmpCopies]
        loss == [i \in 1..NRows(t) |-> t.rows[i]["cn"] = 0]
    IN  SignLevels(gain, loss)

ampdel_levels(t) ==
    LET gain == [i \in 1..NRows(t) |-> t.rows[i]["cn"] >= AmpCopies]
        loss == [i \in 1..NRows(t) |-> t.rows[i]["cn"] = 0]
    IN  SignLevels(gain, loss)

\* cnarr[(cnarr['cn'] == 0) | (cnarr['cn'] >= 5)]: the squashed rows that are a
\* deletion or an amplification, with the groups they came from.
AmpdelSelect(r) ==
    LET keep == SortedSeq({g \in 1..NRows(r.value) :
                    \/ RatEqInt(r.value.rows[g]["cn"], 0)
                    \/ RatGeInt(r.value.rows[g]["cn"], AmpCopies)})
    IN  ReturnTable([cols |-> r.value.cols,
                     rows |-> [k \in 1..Len(keep) |-> r.value.rows[keep[k]]]],
                    [k \in 1..Len(keep) |-> r.groups[keep[k]]])

ampdel(t) ==
    LET r == squash_by_groups(t, ampdel_levels(t))
    IN  IF r.status = "raised" THEN r ELSE AmpdelSelect(r)

bic(t) == ReturnNotImplemented

ci_levels(t) ==
    LET gain == [i \in 1..NRows(t) |-> t.rows[i]["ci_lo"] > 0]
        loss == [i \in 1..NRows(t) |-> t.rows[i]["ci_hi"] < 0]
    IN  SignLevels(gain, loss)

ci(t) == squash_by_groups(t, ci_levels(t))

ci_baf_levels(t) ==
    LET gain == [i \in 1..NRows(t) |-> t.rows[i]["ci_lo"] > 0 /\ t.rows[i]["baf"] > min_baf_amp]
        loss == [i \in 1..NRows(t) |-> t.rows[i]["ci_hi"] < 0 /\ t.rows[i]["baf"] > min_baf_del]
    IN  SignLevels(gain, loss)

ci_baf(t) == squash_by_groups(t, ci_baf_levels(t))

\* Both assignments of the log2 filter write level 0.
log2_levels(t) == [i \in 1..NRows(t) |-> 0]

log2(t) ==
    IF ~Has(t, "baf") THEN Raise("KeyError")      \* segarr['baf']
    ELSE squash_by_groups(t, log2_levels(t))

pi_levels(t) ==
    LET gain == [i \in 1..NRows(t) |-> t.rows[i]["pi_lo"] > 0]
        loss == [i \in 1..NRows(t) |-> t.rows[i]["pi_hi"] < 0]
    IN  SignLevels(gain, loss)

pi(t) == squash_by_groups(t, pi_levels(t))

cn(t) == squash_by_groups(t, Col(t, "cn"))

\* hashlib.md5(str(row[['cn1','cn2','aberrant_cell_frac']].values)): the digest
\* of the text of the three values.  The text of three numbers names them, and
\* two texts have one digest only when they are equal, so the digest is written
\* as the three values the text holds.
Fingerprint(row) == <<"md5", row["cn1"], row["cn2"], row["aberrant_cell_frac"]>>

\* df = segarr.data with the hash and level columns cn_subclone writes to it.
WithScratch(t) ==
    LET hash == [i \in 1..NRows(t) |-> Fingerprint(t.rows[i])]
        hash_key == Unique(hash)
    IN  [cols |-> t.cols \cup {"hash", "level"},
         rows |-> [i \in 1..NRows(t) |->
                      [c \in t.cols \cup {"hash", "level"} |->
                          IF c = "hash" THEN hash[i]
                          ELSE IF c = "level" THEN IndexOf(hash_key, hash[i])
                          ELSE t.rows[i][c]]]]

cn_subclone(t) == LET df == WithScratch(t) IN squash_by_groups(df, Col(df, "level"))

\* margin = sem * zscore; log2 - margin > 0, log2 + margin < 0 (log2 and sem
\* in 1/100, so both sides are multiplied by 100)
sem_levels(t) ==
    LET gain == [i \in 1..NRows(t) |-> 100 * t.rows[i]["log2"] - ZScore * t.rows[i]["sem"] > 0]
        loss == [i \in 1..NRows(t) |-> 100 * t.rows[i]["log2"] + ZScore * t.rows[i]["sem"] < 0]
    IN  SignLevels(gain, loss)

sem(t) == squash_by_groups(t, sem_levels(t))

Filters == {"ampdel", "bic", "ci", "ci_baf", "log2", "pi", "cn", "cn_subclone", "sem"}

\* func(segarr) for the function named f.
Body(f, t) ==
    CASE f = "ampdel" -> ampdel(t)
      [] f = "bic" -> bic(t)
      [] f = "ci" -> ci(t)
      [] f = "ci_baf" -> ci_baf(t)
      [] f = "log2" -> log2(t)
      [] f = "pi" -> pi(t)
      [] f = "cn" -> cn(t)
      [] f = "cn_subclone" -> cn_subclone(t)
      [] f = "sem" -> sem(t)

\* The caller's table after func(segarr) ran: cn_subclone writes its columns
\* to segarr.data itself; no other filter assigns to its argument.
SegarrAfterBody(f, t) == IF f = "cn_subclone" THEN WithScratch(t) ELSE t

(***************************************************************************)
(* require_column: the decorator around every filter.                      *)
(***************************************************************************)
\* The colnames each filter is decorated with.
colnames(f) ==
    CASE f = "ampdel" -> <<"cn">>
      [] f = "bic" -> <<"depth">>
      [] f = "ci" -> <<"ci_lo", "ci_hi">>
      [] f = "ci_baf" -> <<"ci_lo", "ci_hi", "baf">>
      [] f = "log2" -> <<"log2">>
      [] f = "pi" -> <<"pi_lo", "pi_hi">>
      [] f = "cn" -> <<"cn">>
      [] f = "cn_subclone" -> <<"cn1", "cn2", "aberrant_cell_frac">>
      [] f = "sem" -> <<"sem">>

\* msg.format(filtname, *colnames): the text, as the sequence of its parts.
\* It names the filter and every required column, missing or not.
FormatMsg(f, names) ==
    <<"'", f, "' filter requires ",
      IF Len(names) = 1 THEN "column" ELSE "columns">> \o names

\* What wrapped_f adds to an outcome: the message of its ValueError, the number
\* of times it called func, and the row counts it logged.
Gated(r, msg, calls, logged) ==
    [status |-> r.status, error |-> r.error, kind |-> r.kind, value |-> r.value,
     groups |-> r.groups, msg |-> msg, body_calls |-> calls, logged |-> logged]

\* The colnames that are not in segarr.
MissingCols(f, t) == {c \in Members(colnames(f)) : ~Has(t, c)}

wrapped_f(f, t) ==
    IF MissingCols(f, t) # {}
    THEN Gated(Raise("ValueError"), FormatMsg(f, colnames(f)), 0, <<>>)
    ELSE LET result == Body(f, t)
         IN  IF result.status = "raised" THEN Gated(result, <<>>, 1, <<>>)
             ELSE IF result.kind = "NotImplemented"
             THEN Gated(Raise("TypeError"), <<>>, 1, <<>>)     \* len(result)
             ELSE Gated(result, <<>>, 1,
                        <<f, NRows(SegarrAfterBody(f, t)), NRows(result.value)>>)

\* The caller's table after the call f(segarr): the body runs, and may write
\* to the table, only when the gate lets the call through.
SegarrAfterCall(f, t) == IF MissingCols(f, t) # {} THEN t ELSE SegarrAfterBody(f, t)

\* One call f(segarr) of the decorated filter named f.
FilterCall(f) ==
    /\ pc = "ready"
    /\ filt' = f
    /\ out' = wrapped_f(f, segarr)
    /\ segarr' = SegarrAfterCall(f, segarr)
    /\ pc' = out'.status
    /\ UNCHANGED <<before, levels>>

AmpdelCall == FilterCall("ampdel")

BicCall == FilterCall("bic")

CiCall == FilterCall("ci")

CiBafCall == FilterCall("ci_baf")

Log2Call == FilterCall("log2")

PiCall == FilterCall("pi")

CnCall == FilterCall("cn")

CnSubcloneCall == FilterCall("cn_subclone")

SemCall == FilterCall("sem")

(***************************************************************************)
(* enumerate_changes called on its own.                                    *)
(***************************************************************************)
RunLevels == (0 - 1)..MaxLevel

InitRun ==
    /\ \E n \in 1..MaxRunLen : levels \in [1..n -> RunLevels]
    /\ segarr = NoTable
    /\ before = NoTable
    /\ filt = "none"
    /\ pc = "ready"
    /\ out = <<>>

EnumerateChangesCall ==
    /\ pc = "ready"
    /\ filt' = "enumerate_changes"
    /\ out' = enumerate_changes(levels)
    /\ pc' = "returned"
    /\ UNCHANGED <<segarr, before, levels>>

NextRun == EnumerateChangesCall

SpecRun == InitRun /\ [][NextRun]_vars

\* Rows i..k of lv all hold one level: i and k lie in one run.
SameRun(lv, i, k) == \A j \in i..k : lv[j] = lv[i]

\* C2: enumerate_changes gives two rows (adjacent or not) the same key exactly
\* when they lie in the same maximal run of consecutive equal levels; so two
\* occurrences of one level with a different level between them get different
\* keys.
C2_RunKeys ==
    (pc = "returned" /\ filt = "enumerate_changes") =>
        /\ Len(out) = Len(levels)
        /\ \A i \in 1..Len(levels) : \A k \in i..Len(levels) :
               (out[i] = out[k]) <=> SameRun(levels, i, k)

\* A level that comes back after a different level, with its two keys apart.
C2_Witness ==
    /\ pc = "returned" /\ filt = "enumerate_changes"
    /\ \E i \in 1..Len(levels) : \E k \in i..Len(levels) :
           /\ levels[i] = levels[k]
           /\ ~SameRun(levels, i, k)
           /\ out[i] # out[k]
    /\ \E i \in 1..(Len(levels) - 1) : levels[i] = levels[i + 1] /\ out[i] = out[i + 1]

(***************************************************************************)
(* squash_by_groups called with a table and a level sequence of its length.*)
(***************************************************************************)
Chroms == {"chr1", "chr2"}

SquashLevels == {0, 1}

\* (cn1, cn2) of a row; cn is their sum.
AllelePairs == {<<1, 1>>, <<2, 1>>, <<1, 0>>}

\* A row at position i: the coordinates follow the position, the gene follows
\* the chromosome.
SquashRow(i, chrom, ab) ==
    [chromosome |-> chrom, start |-> 100 * i, end |-> 100 * i + 99,
     log2 |-> 10 * (ab[1] + ab[2]) - 20, weight |-> 1,
     gene |-> IF chrom = "chr1" THEN <<"TP53">> ELSE <<"MYC">>,
     cn |-> ab[1] + ab[2], cn1 |-> ab[1], cn2 |-> ab[2]]

\* r shown through the columns cols.
Restrict(r, cols) == [c \in cols |-> r[c]]

SquashColSets == {AlwaysCols \cup {"cn"}, AlwaysCols \cup {"cn", "cn1", "cn2"}}

InitSquash ==
    /\ \E n \in 1..MaxRows :
         \E ch \in [1..n -> Chroms] :
           \E ab \in [1..n -> AllelePairs] :
             \E cols \in SquashColSets :
               /\ segarr = [cols |-> cols,
                            rows |-> [i \in 1..n |-> Restrict(SquashRow(i, ch[i], ab[i]), cols)]]
               /\ levels \in [1..n -> SquashLevels]
    /\ before = segarr
    /\ filt = "none"
    /\ pc = "ready"
    /\ out = <<>>

SquashCall ==
    /\ pc = "ready"
    /\ filt' = "squash_by_groups"
    /\ out' = squash_by_groups(segarr, levels)
    /\ pc' = out'.status
    /\ UNCHANGED <<segarr, before, levels>>

NextSquash == SquashCall

SpecSquash == InitSquash /\ [][NextSquash]_vars

Squashed == pc = "returned" /\ filt = "squash_by_groups"

\* Each chromosome's rows are contiguous in t.
ChromContiguous(t) ==
    \A i \in 1..NRows(t) : \A k \in i..NRows(t) :
        t.rows[i]["chromosome"] = t.rows[k]["chromosome"] =>
            \A j \in i..k : t.rows[j]["chromosome"] = t.rows[i]["chromosome"]

\* C1: in squash_by_groups, for every ordered table (sorted or not, chromosomes
\* contiguous or not) and every integer level sequence, no group spans a
\* chromosome boundary: any two rows reduced into one output row have the same
\* chromosome.
C1_NoGroupSpansChromosomes ==
    Squashed =>
        \A g \in 1..Len(out.groups) : \A i, k \in Members(out.groups[g]) :
            segarr.rows[i]["chromosome"] = segarr.rows[k]["chromosome"]

\* C1 restricted to tables whose chromosomes are contiguous.
C1_ContiguousTables ==
    (Squashed /\ ChromContiguous(segarr)) =>
        \A g \in 1..Len(out.groups) : \A i, k \in Members(out.groups[g]) :
            segarr.rows[i]["chromosome"] = segarr.rows[k]["chromosome"]

\* Every row lies in exactly one group, and the groups are as many as the
\* output rows.
GroupsPartition ==
    /\ Len(out.groups) = NRows(out.value)
    /\ \A i \in 1..NRows(segarr) :
           Cardinality({g \in 1..Len(out.groups) : i \in Members(out.groups[g])}) = 1

\* The rows q of a group are consecutive rows of the table.
ContiguousGroup(q) ==
    /\ Len(q) > 0
    /\ \A k \in 1..Len(q) : q[k] = q[1] + k - 1

\* C9: in squash_by_groups, for every ordered table and level sequence, each
\* group is a contiguous run of input rows, each output row takes start from
\* the first and end from the last row of its group, and the output rows are in
\* the order of their groups' rows in the input.
C9_GroupsAreContiguousRuns ==
    Squashed =>
        /\ GroupsPartition
        /\ \A g \in 1..Len(out.groups) :
               /\ ContiguousGroup(out.groups[g])
               /\ out.value.rows[g]["start"] = segarr.rows[out.groups[g][1]]["start"]
               /\ out.value.rows[g]["end"] =
                      segarr.rows[out.groups[g][Len(out.groups[g])]]["end"]
        /\ \A g \in 1..(Len(out.groups) - 1) :
               out.groups[g][Len(out.groups[g])] < out.groups[g + 1][1]

\* C9 restricted to tables whose chromosomes are contiguous.
C9_ContiguousTables ==
    (Squashed /\ ChromContiguous(segarr)) =>
        /\ GroupsPartition
        /\ \A g \in 1..Len(out.groups) :
               /\ ContiguousGroup(out.groups[g])
               /\ out.value.rows[g]["start"] = segarr.rows[out.groups[g][1]]["start"]
               /\ out.value.rows[g]["end"] =
                      segarr.rows[out.groups[g][Len(out.groups[g])]]["end"]
        /\ \A g \in 1..(Len(out.groups) - 1) :
               out.groups[g][Len(out.groups[g])] < out.groups[g + 1][1]

\* The group that holds row i.
GroupOf(i) == CHOOSE g \in 1..Len(out.groups) : i \in Members(out.groups[g])

OptionalCols ==
    {"probes", "depth", "baf", "cn", "cn1", "cn2", "ci_lo", "ci_hi", "pi_lo", "pi_hi",
     "sem", "aberrant_cell_frac", "p_bintest"}

Profiles == {"gain", "loss", "neutral"}

\* A row at position i that is a clear gain, a clear loss or neutral in every
\* signal the filters read.
GateRow(i, k) ==
    [chromosome |-> "chr1", start |-> 100 * i, end |-> 100 * i + 99,
     log2 |-> CASE k = "gain" -> 80 [] k = "loss" -> 0 - 90 [] OTHER -> 2,
     weight |-> i - 1,
     gene |-> IF k = "neutral" THEN <<"-">> ELSE <<"MYC">>,
     probes |-> 10 * i,
     depth |-> CASE k = "gain" -> 300 [] k = "loss" -> 20 [] OTHER -> 100,
     baf |-> CASE k = "gain" -> 7000 [] k = "loss" -> 9000 [] OTHER -> 5000,
     cn |-> CASE k = "gain" -> 6 [] k = "loss" -> 0 [] OTHER -> 2,
     cn1 |-> CASE k = "gain" -> 4 [] k = "loss" -> 0 [] OTHER -> 1,
     cn2 |-> CASE k = "gain" -> 2 [] k = "loss" -> 0 [] OTHER -> 1,
     ci_lo |-> CASE k = "gain" -> 50 [] k = "loss" -> 0 - 120 [] OTHER -> 0 - 10,
     ci_hi |-> CASE k = "gain" -> 110 [] k = "loss" -> 0 - 60 [] OTHER -> 14,
     pi_lo |-> CASE k = "gain" -> 20 [] k = "loss" -> 0 - 150 [] OTHER -> 0 - 40,
     pi_hi |-> CASE k = "gain" -> 140 [] k = "loss" -> 0 - 30 [] OTHER -> 44,
     sem |-> 10,
     aberrant_cell_frac |-> CASE k = "gain" -> 60 [] k = "loss" -> 30 [] OTHER -> 0,
     p_bintest |-> i]

InitGate ==
    /\ \E n \in 1..MaxGateRows :
         \E ks \in [1..n -> Profiles] :
           \E opt \in SUBSET OptionalCols :
             segarr = [cols |-> AlwaysCols \cup opt,
                       rows |-> [i \in 1..n |->
                                    Restrict(GateRow(i, ks[i]), AlwaysCols \cup opt)]]
    /\ before = segarr
    /\ levels = <<>>
    /\ filt = "none"
    /\ pc = "ready"
    /\ out = <<>>

NextGate ==
    \/ AmpdelCall
    \/ BicCall
    \/ CiCall
    \/ CiBafCall
    \/ Log2Call
    \/ PiCall
    \/ CnCall
    \/ CnSubcloneCall
    \/ SemCall

SpecGate == InitGate /\ [][NextGate]_vars

Called == pc # "ready" /\ filt \in Filters

\* The required columns of the called filter that the table lacked.
Missing == {c \in Members(colnames(filt)) : c \notin before.cols}

\* C4: for every filter, if a required column is absent the call raises a
\* ValueError whose message names the filter and the missing columns, the body
\* is not invoked and no table is produced; if all required columns are present
\* the body is invoked exactly once and the result it returns is returned.
C4_Gate ==
    Called =>
        /\ Missing # {} =>
               /\ pc = "raised" /\ out.error = "ValueError"
               /\ filt \in Members(out.msg)
               /\ Missing \subseteq Members(out.msg)
               /\ out.body_calls = 0
               /\ out.kind = "none"
        /\ Missing = {} =>
               /\ out.body_calls = 1
               /\ Body(filt, before).status = "returned" =>
                      /\ pc = "returned"
                      /\ out.kind = Body(filt, before).kind
                      /\ out.value = Body(filt, before).value

\* C4 for every filter but bic.
C4_GateOfOtherFilters ==
    Called =>
        /\ Missing # {} =>
               /\ pc = "raised" /\ out.error = "ValueError"
               /\ filt \in Members(out.msg)
               /\ Missing \subseteq Members(out.msg)
               /\ out.body_calls = 0
               /\ out.kind = "none"
        /\ Missing = {} =>
               /\ out.body_calls = 1
               /\ (filt # "bic" /\ Body(filt, before).status = "returned") =>
                      /\ pc = "returned"
                      /\ out.kind = Body(filt, before).kind
                      /\ out.value = Body(filt, before).value

\* C5: bic called through its gate on a table with a depth column gives the
\* caller the NotImplemented result, and raises nothing.
C5_BicUnsupported ==
    (Called /\ filt = "bic" /\ "depth" \in before.cols) =>
        /\ pc = "returned"
        /\ out.kind = "NotImplemented"

\* C7: every filter call leaves the caller's table as it was (same columns,
\* same rows, same values), and the table it returns holds no scratch column.
C7_InputUnchanged ==
    Called =>
        /\ segarr = before
        /\ (pc = "returned" /\ out.kind = "table") =>
               out.value.cols \cap {"hash", "level", "_group", "_g1", "_g2"} = {}

\* C7 for every filter but cn_subclone.
C7_OtherFiltersLeaveInput ==
    (Called /\ filt # "cn_subclone") =>
        /\ segarr = before
        /\ (pc = "returned" /\ out.kind = "table") =>
               out.value.cols \cap {"hash", "level", "_group", "_g1", "_g2"} = {}

\* C8: a call of a named filter (bic aside) on a table with the always-present
\* columns and any optional ones is either rejected by the gate before the body
\* runs, or passes the gate and completes: nothing fails after the gate.
C8_NoFailureAfterGate ==
    (Called /\ filt # "bic") =>
        \/ pc = "raised" /\ out.error = "ValueError" /\ out.body_calls = 0
        \/ pc = "returned" /\ out.kind = "table" /\ out.body_calls = 1

(***************************************************************************)
(* ampdel called on tables with sorted chromosomes, a cn column and no     *)
(* cn1 / cn2 columns.                                                      *)
(***************************************************************************)
CnVals == {0, 1, 4, 5, 6}

Weights == {0, 1}

AmpRow(i, chrom, copies, w) ==
    [chromosome |-> chrom, start |-> 100 * i, end |-> 100 * i + 99,
     log2 |-> 10 * copies - 20, weight |-> w,
     gene |-> IF chrom = "chr1" THEN <<"TP53">> ELSE <<"MYC">>,
     cn |-> copies]

\* The scenario table: cn 2,2,0,0,6,6,2 on one chromosome, every weight 1.
ScenarioCn == <<2, 2, 0, 0, 6, 6, 2>>

ScenarioTable ==
    [cols |-> AlwaysCols \cup {"cn"},
     rows |-> [i \in 1..Len(ScenarioCn) |->
                  Restrict(AmpRow(i, "chr1", ScenarioCn[i], 1), AlwaysCols \cup {"cn"})]]

InitAmpdel ==
    /\ \/ \E n \in 1..MaxAmpRows :
            \E ch \in [1..n -> Chroms] :
              \E copies \in [1..n -> CnVals] :
                \E w \in [1..n -> Weights] :
                  segarr = [cols |-> AlwaysCols \cup {"cn"},
                            rows |-> [i \in 1..n |->
                                         Restrict(AmpRow(i, ch[i], copies[i], w[i]),
                                                  AlwaysCols \cup {"cn"})]]
       \/ segarr = ScenarioTable
    /\ ChromContiguous(segarr)
    /\ before = segarr
    /\ levels = <<>>
    /\ filt = "none"
    /\ pc = "ready"
    /\ out = <<>>

NextAmpdel == AmpdelCall

SpecAmpdel == InitAmpdel /\ [][NextAmpdel]_vars

\* -1 for a deleted row (cn = 0), 1 for an amplified row (cn >= 5), else 0.
CallOf(t, i) ==
    IF t.rows[i]["cn"] = 0 THEN 0 - 1 ELSE IF t.rows[i]["cn"] >= 5 THEN 1 ELSE 0

\* Rows i and i + 1 lie in one same-chromosome run of one call.
Continues(t, i) ==
    /\ t.rows[i]["chromosome"] = t.rows[i + 1]["chromosome"]
    /\ CallOf(t, i) = CallOf(t, i + 1)

\* The first rows of the maximal same-chromosome runs of deleted rows and of
\* amplified rows, in order.
CalledRunStarts(t) ==
    SortedSeq({i \in 1..NRows(t) :
                  CallOf(t, i) # 0 /\ (i = 1 \/ ~Continues(t, i - 1))})

\* The last row of the run that starts at row i.
RunEnd(t, i) ==
    CHOOSE k \in i..NRows(t) :
        /\ \A j \in i..(k - 1) : Continues(t, j)
        /\ k = NRows(t) \/ ~Continues(t, k)

\* The cn column of a table of squashed rows, as integers where they are.
IntCn(t) == [g \in 1..NRows(t) |-> CHOOSE x \in 0..9 : RatEqInt(t.rows[g]["cn"], x)]

\* C6: ampdel, on a table with sorted chromosomes, non-negative integer cn and
\* no cn1/cn2, returns rows with cn = 0 or cn >= 5 only: exactly one row for
\* each maximal same-chromosome run of deleted rows and of amplified rows (in
\* order, spanning the run), none for a neutral run; cn 2,2,0,0,6,6,2 with
\* weight 1 squashes to cn 2,0,6,2 and ampdel returns the two rows cn 0 and 6.
C6_AmpdelRuns ==
    (pc # "ready" /\ filt = "ampdel") =>
        /\ pc = "returned" /\ out.kind = "table"
        /\ \A g \in 1..NRows(out.value) :
               \/ RatEqInt(out.value.rows[g]["cn"], 0)
               \/ RatGeInt(out.value.rows[g]["cn"], 5)
        /\ LET starts == CalledRunStarts(before)
           IN  /\ NRows(out.value) = Len(starts)
               /\ \A g \in 1..Len(starts) :
                      /\ out.groups[g] =
                             [k \in 1..(RunEnd(before, starts[g]) - starts[g] + 1) |->
                                 starts[g] + k - 1]
                      /\ out.value.rows[g]["chromosome"] =
                             before.rows[starts[g]]["chromosome"]
                      /\ out.value.rows[g]["start"] = before.rows[starts[g]]["start"]
                      /\ out.value.rows[g]["end"] =
                             before.rows[RunEnd(before, starts[g])]["end"]
                      /\ CallOf(before, starts[g]) = 0 - 1 =>
                             RatEqInt(out.value.rows[g]["cn"], 0)
                      /\ CallOf(before, starts[g]) = 1 =>
                             RatGeInt(out.value.rows[g]["cn"], 5)
        /\ before = ScenarioTable =>
               /\ IntCn(squash_by_groups(before, ampdel_levels(before)).value) = <<2, 0, 6, 2>>
               /\ IntCn(out.value) = <<0, 6>>

\* ampdel returned from the scenario table.
C6_Witness ==
    /\ pc = "returned" /\ filt = "ampdel"
    /\ before = ScenarioTable
    /\ NRows(out.value) = 2

\* ampdel merged an amplified run of unequal cn and dropped a neutral run, on a
\* table of two chromosomes with a weightless row.
C6_WitnessRuns ==
    /\ pc = "returned" /\ filt = "ampdel"
    /\ \E g \in 1..Len(out.groups) :
           /\ Len(out.groups[g]) >= 2
           /\ before.rows[out.groups[g][1]]["cn"] # before.rows[out.groups[g][2]]["cn"]
    /\ NRows(out.value) < NRows(before)

(***************************************************************************)
(* squash_by_groups called on tables whose groups may all be single rows.  *)
(***************************************************************************)
\* (cn, cn1, cn2) of a row; the last is a row whose cn is not cn1 + cn2.
CopyTriples == {<<2, 1, 1>>, <<3, 2, 1>>, <<3, 1, 1>>}

SingleWeights == {0, 2}

SingleRow(i, chrom, w, abc) ==
    [chromosome |-> chrom, start |-> 100 * i, end |-> 100 * i + 99,
     log2 |-> 10 * abc[1] - 25, weight |-> w,
     gene |-> IF chrom = "chr1" THEN <<"TP53", "WRAP53">> ELSE <<"MYC">>,
     probes |-> 3 * i, depth |-> 100 + 10 * i, baf |-> 5000 + 1000 * abc[2],
     cn |-> abc[1], cn1 |-> abc[2], cn2 |-> abc[3], p_bintest |-> i]

SingleColSets ==
    {AlwaysCols \cup opt :
        opt \in {{}, {"probes"}, {"cn"}, {"cn", "cn1", "cn2"}, {"cn1", "cn2"},
                 {"probes", "depth", "baf", "cn", "cn1", "cn2", "p_bintest"}}}

InitSingle ==
    /\ \E n \in 1..MaxSingleRows :
         \E ch \in [1..n -> Chroms] :
           \E w \in [1..n -> SingleWeights] :
             \E abc \in [1..n -> CopyTriples] :
               \E cols \in SingleColSets :
                 /\ segarr = [cols |-> cols,
                              rows |-> [i \in 1..n |->
                                           Restrict(SingleRow(i, ch[i], w[i], abc[i]), cols)]]
                 /\ levels \in [1..n -> SquashLevels]
    /\ before = segarr
    /\ filt = "none"
    /\ pc = "ready"
    /\ out = <<>>

SpecSingle == InitSingle /\ [][NextSquash]_vars

\* Every group of the call is a single row.
AllSingletons == Squashed /\ \A g \in 1..Len(out.groups) : Len(out.groups[g]) = 1

\* Output row i holds the input row's own value in column c.
SameCell(i, c) ==
    /\ c \in out.value.cols
    /\ IF c \in {"log2", "depth", "baf", "cn", "cn1", "cn2"}
       THEN RatEqInt(out.value.rows[i][c], segarr.rows[i][c])
       ELSE out.value.rows[i][c] = segarr.rows[i][c]

\* C10: when every group has exactly one row, squash_by_groups returns as many
\* rows in the same order, and each holds the input row's own chromosome,
\* start, end, log2, gene, weight, and probes, depth, baf, cn, cn1, cn2 and
\* p_bintest when present, for any weight including 0.
C10_SingletonsUnchanged ==
    AllSingletons =>
        /\ NRows(out.value) = NRows(segarr)
        /\ \A i \in 1..NRows(segarr) :
               /\ out.groups[i] = <<i>>
               /\ \A c \in {"chromosome", "start", "end", "log2", "gene", "weight"} :
                      SameCell(i, c)
               /\ \A c \in {"probes", "depth", "baf", "cn", "cn1", "cn2", "p_bintest"} :
                      c \in segarr.cols => SameCell(i, c)

\* C10 as the code has it: cn1 and cn2 are kept only when the table also has
\* cn (they are dropped otherwise), and cn2 is the row's cn - cn1, which is the
\* row's own cn2 when its cn is cn1 + cn2; probes is the row's own when the
\* table has the column, and 1 (the row count) when it has not.
C10_SingletonsUnchangedGivenCn ==
    AllSingletons =>
        /\ NRows(out.value) = NRows(segarr)
        /\ \A i \in 1..NRows(segarr) :
               /\ out.groups[i] = <<i>>
               /\ \A c \in {"chromosome", "start", "end", "log2", "gene", "weight"} :
                      SameCell(i, c)
               /\ \A c \in {"probes", "depth", "baf", "cn", "p_bintest"} :
                      c \in segarr.cols => SameCell(i, c)
               /\ "probes" \notin segarr.cols => out.value.rows[i]["probes"] = 1
               /\ ("cn1" \in segarr.cols /\ "cn" \in segarr.cols) =>
                      /\ SameCell(i, "cn1")
                      /\ "cn2" \in out.value.cols
                      /\ RatEqInt(out.value.rows[i]["cn2"],
                                  segarr.rows[i]["cn"] - segarr.rows[i]["cn1"])
                      /\ segarr.rows[i]["cn"] = segarr.rows[i]["cn1"] + segarr.rows[i]["cn2"]
                             => SameCell(i, "cn2")
               /\ ("cn1" \in segarr.cols /\ "cn" \notin segarr.cols) =>
                      out.value.cols \cap {"cn1", "cn2"} = {}

\* Two single-row groups, one of weight 0, of a table with cn, cn1 and cn2.
C10_Witness ==
    /\ AllSingletons
    /\ NRows(segarr) = 2
    /\ {"cn", "cn1", "cn2", "depth"} \subseteq segarr.cols
    /\ segarr.rows[1]["weight"] = 0
    /\ segarr.rows[2]["weight"] > 0

====
